---- MODULE Spec2Model ----
(***************************************************************************)
(* Model of the NiTiS.Math source generator (gen/src/output.rs and         *)
(* gen/src/main.rs): the ContextBuilder accumulator over a tera::Context,  *)
(* its preset new_bvec, the output table of build_output_pairs, and the    *)
(* driver main.                                                            *)
(*                                                                         *)
(* A tera::Context is a map from binding name to a serde_json value; it is *)
(* modelled as a function whose domain is the set of bound names and whose *)
(* values are tagged <<"String", s>> or <<"Number", n>>.                   *)
(***************************************************************************)
EXTENDS Integers, Sequences, FiniteSets, TLC

\* Bound of the model: total number of setter calls clients make directly.
MaxCalls == 3

\* A u32 (the dim parameter of with_dimension / new_bvec) as two 16-bit
\* limbs <<high, low>>: TLC's integers are narrower than 2^32.
U32(hi, lo) == <<hi, lo>>

\* Client builders that may be alive at the same time.
Builders == {1, 2}

\* Inputs the clients draw from.
Templates == {"vec.cs.tera", "vec template"}
ElementTypes == {"bool", "f32"}
Dims == {U32(0, 0), U32(0, 3), U32(65535, 65535)}

VARIABLES
    status,  \* builder -> "none" (not constructed) | "building" | "built" (consumed by build)
    ctx,     \* builder -> the tera::Context held in field 0 of the ContextBuilder
    out,     \* builder -> the tera::Context returned by build()
    ctor,    \* builder -> the constructor call that created it (history)
    calls,   \* builder -> the setter calls made on it after construction (history)
    pc,      \* position of main: "start" | "done" | "failed"
    pairs    \* the HashMap returned by build_output_pairs() in main

vars == <<status, ctx, out, ctor, calls, pc, pairs>>

----------------------------------------------------------------------------
(* tera::Context and the values inserted into it *)

\* serde_json::to_value of a &str
String(s) == <<"String", s>>

\* serde_json::to_value of a &u32: a Number holding the value zero-extended
\* to 64 bits, as four 16-bit limbs
Number(n) == <<"Number", <<0, 0, n[1], n[2]>> >>

\* tera::Context::new(): no bindings
ContextNew == [k \in {} |-> <<>>]

\* tera::Context::insert(key, val): binds key, replacing any earlier binding
Insert(c, key, val) == [k \in (DOMAIN c) \cup {key} |-> IF k = key THEN val ELSE c[k]]

----------------------------------------------------------------------------
(* ContextBuilder *)

new == ContextNew

with_template(self, template) == Insert(self, "template_path", String(template))

\* A with_element_type that writes under another name
with_element_type_wrong_key(self, name) == Insert(self, "element_type", String(name))

with_element_type(self, name) == Insert(self, "element_t", String(name))

\* A with_dimension that keeps an earlier dim instead of replacing it
with_dimension_keep_first(self, dim) ==
    IF "dim" \in DOMAIN self THEN self ELSE Insert(self, "dim", Number(dim))

\* A with_dimension that narrows its parameter to 16 bits
with_dimension_u16(self, dim) == Insert(self, "dim", Number(U32(0, dim[2])))

with_dimension(self, dim) == Insert(self, "dim", Number(dim))

\* A build that rejects a context without template_path
build_validating(self) ==
    IF "template_path" \in DOMAIN self THEN self ELSE ContextNew

build(self) == self

\* A preset that ignores its parameter
new_bvec_fixed_dim(dim) ==
    with_template(with_element_type(with_dimension(new, U32(0, 2)), "bool"), "vec.cs.tera")

\* A preset that leaves the template out
new_bvec_no_template(dim) ==
    with_element_type(with_dimension(new, dim), "bool")

\* A preset that adds a binding of its own
new_bvec_extra_binding(dim) ==
    Insert(with_template(with_element_type(with_dimension(new, dim), "bool"), "vec.cs.tera"),
           "preset", String("bvec"))

new_bvec(dim) ==
    with_template(with_element_type(with_dimension(new, dim), "bool"), "vec.cs.tera")

----------------------------------------------------------------------------
(* build_output_pairs *)

\* A table whose single entry is built for another dimension
output_pairs_3d == << <<"BVector2d.cs", build(new_bvec(U32(0, 3)))>> >>

\* A table with an entry that has no file name
output_pairs_unnamed == << <<"", build(new_bvec(U32(0, 2)))>> >>

\* The array literal handed to HashMap::from
output_pairs == << <<"BVector2d.cs", build(new_bvec(U32(0, 2)))>> >>

\* HashMap::from(array): inserts the pairs in order, a later pair replacing
\* an earlier one with the same key
RECURSIVE HashMapFrom(_)
HashMapFrom(arr) ==
    IF arr = <<>> THEN [k \in {} |-> <<>>]
    ELSE LET n    == Len(arr)
             rest == HashMapFrom(SubSeq(arr, 1, n - 1))
         IN  [k \in (DOMAIN rest) \cup {arr[n][1]} |->
                 IF k = arr[n][1] THEN arr[n][2] ELSE rest[k]]

build_output_pairs == HashMapFrom(output_pairs)

----------------------------------------------------------------------------
(* State machine *)

TotalCalls == Len(calls[1]) + Len(calls[2])

Init ==
    /\ status = [b \in Builders |-> "none"]
    /\ ctx = [b \in Builders |-> ContextNew]
    /\ out = [b \in Builders |-> ContextNew]
    /\ ctor = [b \in Builders |-> <<"none">>]
    /\ calls = [b \in Builders |-> <<>>]
    /\ pc = "start"
    /\ pairs = [k \in {} |-> <<>>]

New(b) ==
    /\ status[b] = "none"
    /\ status' = [status EXCEPT ![b] = "building"]
    /\ ctx' = [ctx EXCEPT ![b] = new]
    /\ ctor' = [ctor EXCEPT ![b] = <<"new">>]
    /\ UNCHANGED <<out, calls, pc, pairs>>

NewBvec(b, dim) ==
    /\ status[b] = "none"
    /\ status' = [status EXCEPT ![b] = "building"]
    /\ ctx' = [ctx EXCEPT ![b] = new_bvec(dim)]
    /\ ctor' = [ctor EXCEPT ![b] = <<"new_bvec", dim>>]
    /\ UNCHANGED <<out, calls, pc, pairs>>

WithTemplate(b, template) ==
    /\ status[b] = "building"
    /\ TotalCalls < MaxCalls
    /\ ctx' = [ctx EXCEPT ![b] = with_template(ctx[b], template)]
    /\ calls' = [calls EXCEPT ![b] = Append(calls[b], <<"with_template", template>>)]
    /\ UNCHANGED <<status, out, ctor, pc, pairs>>

WithElementType(b, name) ==
    /\ status[b] = "building"
    /\ TotalCalls < MaxCalls
    /\ ctx' = [ctx EXCEPT ![b] = with_element_type(ctx[b], name)]
    /\ calls' = [calls EXCEPT ![b] = Append(calls[b], <<"with_element_type", name>>)]
    /\ UNCHANGED <<status, out, ctor, pc, pairs>>

\* A WithDimension over one context shared by all builders
WithDimension_shared(b, dim) ==
    /\ status[b] = "building"
    /\ TotalCalls < MaxCalls
    /\ ctx' = [c \in Builders |-> IF status[c] = "building"
                                    THEN with_dimension(ctx[c], dim) ELSE ctx[c]]
    /\ calls' = [calls EXCEPT ![b] = Append(calls[b], <<"with_dimension", dim>>)]
    /\ UNCHANGED <<status, out, ctor, pc, pairs>>

WithDimension(b, dim) ==
    /\ status[b] = "building"
    /\ TotalCalls < MaxCalls
    /\ ctx' = [ctx EXCEPT ![b] = with_dimension(ctx[b], dim)]
    /\ calls' = [calls EXCEPT ![b] = Append(calls[b], <<"with_dimension", dim>>)]
    /\ UNCHANGED <<status, out, ctor, pc, pairs>>

Build(b) ==
    /\ status[b] = "building"
    /\ status' = [status EXCEPT ![b] = "built"]
    /\ out' = [out EXCEPT ![b] = build(ctx[b])]
    /\ UNCHANGED <<ctx, ctor, calls, pc, pairs>>

\* main: Tera::new and Repository::open may fail (the ? operator returns the
\* error) and repo.workdir() may be None (unwrap panics); in each of these
\* cases main ends before build_output_pairs is called. Otherwise the output
\* table is built and main returns Ok.
Main(teraOk, repoOk, hasWorkdir) ==
    /\ pc = "start"
    /\ IF teraOk /\ repoOk /\ hasWorkdir
         THEN pc' = "done" /\ pairs' = build_output_pairs
         ELSE pc' = "failed" /\ UNCHANGED pairs
    /\ UNCHANGED <<status, ctx, out, ctor, calls>>

Next ==
    \/ \E b \in Builders : New(b)
    \/ \E b \in Builders, d \in Dims : NewBvec(b, d)
    \/ \E b \in Builders, t \in Templates : WithTemplate(b, t)
    \/ \E b \in Builders, n \in ElementTypes : WithElementType(b, n)
    \/ \E b \in Builders, d \in Dims : WithDimension(b, d)
    \/ \E b \in Builders : Build(b)
    \/ \E teraOk \in BOOLEAN, repoOk \in BOOLEAN, hasWorkdir \in BOOLEAN :
          Main(teraOk, repoOk, hasWorkdir)

Spec == Init /\ [][Next]_vars

----------------------------------------------------------------------------
(* Reading the call history *)

Built(b) == status[b] = "built"

ByNew(b) == ctor[b][1] = "new"

ByPreset(b) == ctor[b][1] = "new_bvec"

\* The binding name a recorded setter call writes
KeyOf(call) ==
    CASE call[1] = "with_template"     -> "template_path"
      [] call[1] = "with_element_type" -> "element_t"
      [] call[1] = "with_dimension"    -> "dim"

\* The value a recorded setter call passes, as the context should hold it
ValOf(call) ==
    IF call[1] = "with_dimension"
      THEN <<"Number", <<0, 0, call[2][1], call[2][2]>> >>
      ELSE <<"String", call[2]>>

\* The position of the last call in h that writes key k
LastIdx(h, k) ==
    CHOOSE i \in 1..Len(h) :
        /\ KeyOf(h[i]) = k
        /\ \A j \in (i + 1)..Len(h) : KeyOf(h[j]) # k

KeysSet(h) == {KeyOf(h[i]) : i \in 1..Len(h)}

----------------------------------------------------------------------------
(* Claims *)

\* C1: after new(), any sequence of setter calls and build(), the context
\* holds exactly the keys some call set, each bound to the value of the last
\* call that set it; repeating the last setter call with the same value
\* gives the same context as making it once.
C1_LastWriteWins ==
    /\ \A b \in Builders :
         (Built(b) /\ ByNew(b)) =>
            /\ DOMAIN out[b] = KeysSet(calls[b])
            /\ \A k \in KeysSet(calls[b]) :
                 out[b][k] = ValOf(calls[b][LastIdx(calls[b], k)])
    /\ \A b \in Builders, c \in Builders :
         (/\ Built(b) /\ ByNew(b) /\ Built(c) /\ ByNew(c)
          /\ Len(calls[b]) >= 1
          /\ Len(calls[c]) = Len(calls[b]) + 1
          /\ SubSeq(calls[c], 1, Len(calls[b])) = calls[b]
          /\ calls[c][Len(calls[c])] = calls[b][Len(calls[b])])
         => out[c] = out[b]

\* C1 witness: new().with_dimension(0).with_dimension(3).build() has been
\* run and yielded dim = 3.
C1_Witness ==
    \E b \in Builders :
        /\ Built(b) /\ ByNew(b)
        /\ calls[b] = << <<"with_dimension", <<0, 0>> >>, <<"with_dimension", <<0, 3>> >> >>
        /\ out[b]["dim"] = <<"Number", <<0, 0, 0, 3>> >>

\* C2: new_bvec(d) followed by build() yields exactly element_t = "bool",
\* template_path = "vec.cs.tera" and dim = d, for every d.
C2_NewBvecContext ==
    \A b \in Builders :
        (Built(b) /\ ByPreset(b) /\ Len(calls[b]) = 0) =>
            out[b] = [ template_path |-> <<"String", "vec.cs.tera">>,
                       element_t     |-> <<"String", "bool">>,
                       dim           |-> <<"Number", <<0, 0, ctor[b][2][1], ctor[b][2][2]>> >> ]

\* C2 witness: new_bvec(2^32 - 1).build() and new_bvec(0).build() have both
\* been run.
C2_Witness ==
    /\ \A b \in Builders : Built(b) /\ ByPreset(b) /\ Len(calls[b]) = 0
    /\ ctor[1][2] = <<65535, 65535>>
    /\ ctor[2][2] = <<0, 0>>
    /\ out[1]["dim"] = <<"Number", <<0, 0, 65535, 65535>> >>

\* C3: build_output_pairs() returns a mapping with exactly one entry,
\* "BVector2d.cs", bound to {template_path: "vec.cs.tera", element_t: "bool",
\* dim: 2}.
C3_OutputPairs ==
    pc = "done" =>
        /\ DOMAIN pairs = {"BVector2d.cs"}
        /\ pairs["BVector2d.cs"] =
              [ template_path |-> <<"String", "vec.cs.tera">>,
                element_t     |-> <<"String", "bool">>,
                dim           |-> <<"Number", <<0, 0, 0, 2>> >> ]

\* C3 witness: main has called build_output_pairs() and holds its result.
C3_Witness ==
    /\ pc = "done"
    /\ Cardinality(DOMAIN pairs) = 1

\* C4: every context built through the preset, whatever setters follow it,
\* and every value of the output table has template_path set.
C4_TemplatePathSet ==
    /\ \A b \in Builders :
         (Built(b) /\ ByPreset(b)) => "template_path" \in DOMAIN out[b]
    /\ \A f \in DOMAIN pairs : "template_path" \in DOMAIN pairs[f]

\* C4 witness: a preset builder that went through further setters has been
\* built, and the output table has been built.
C4_Witness ==
    /\ pc = "done" /\ pairs # ContextNew
    /\ \E b \in Builders :
         /\ Built(b) /\ ByPreset(b) /\ Len(calls[b]) = 3
         /\ "template_path" \in DOMAIN out[b]

\* C5: build() validates nothing and cannot fail: it is possible in every
\* builder state and returns exactly the accumulated bindings, also when
\* template_path was never set; new() and the setters are possible whenever
\* their receiver exists.
C5_BuildTotal ==
    \A b \in Builders :
        /\ Built(b) => out[b] = ctx[b]
        /\ (Built(b) /\ ByNew(b)) =>
              ("template_path" \in DOMAIN out[b]
                  <=> \E i \in 1..Len(calls[b]) : calls[b][i][1] = "with_template")
        /\ status[b] = "building" => ENABLED Build(b)
        /\ status[b] = "none" => ENABLED New(b)
        /\ (status[b] = "building" /\ TotalCalls < MaxCalls) =>
              /\ \A t \in Templates : ENABLED WithTemplate(b, t)
              /\ \A n \in ElementTypes : ENABLED WithElementType(b, n)
              /\ \A d \in Dims : ENABLED WithDimension(b, d)

\* C5 witness: new().build() and new().with_dimension(d).build() have been
\* run and returned contexts without template_path.
C5_Witness ==
    /\ Built(1) /\ ByNew(1) /\ Len(calls[1]) = 0 /\ out[1] = ContextNew
    /\ Built(2) /\ ByNew(2) /\ Len(calls[2]) = 1 /\ DOMAIN out[2] = {"dim"}

\* C6: builders share no mutable state: a step changes the context of no
\* builder other than the one the call was made on, a built context is
\* determined by the calls made on its own builder, client calls leave the
\* output table alone, and building the output table leaves every client
\* builder alone; the "BVector2d.cs" entry keeps dim = 2 next to a context
\* built by new_bvec(3).
C6_Independent ==
    [][ /\ \A b \in Builders :
             (calls'[b] = calls[b] /\ ctor'[b] = ctor[b] /\ status'[b] = status[b])
                => (ctx'[b] = ctx[b] /\ out'[b] = out[b])
        /\ \A b \in Builders, c \in Builders :
             (Built(b)' /\ Built(c)' /\ ctor'[b] = ctor'[c] /\ calls'[b] = calls'[c])
                => out'[b] = out'[c]
        /\ pc' = pc => pairs' = pairs
        /\ \A b \in Builders :
             (Built(b)' /\ ByPreset(b)' /\ Len(calls'[b]) = 0 /\ pc' = "done")
                => /\ out'[b]["dim"] = <<"Number", <<0, 0, ctor'[b][2][1], ctor'[b][2][2]>> >>
                   /\ pairs'["BVector2d.cs"]["dim"] = <<"Number", <<0, 0, 0, 2>> >>
      ]_vars

\* C6 witness: setters were called on two builders alive at the same time,
\* both were built to different contexts, one of them next to a context
\* built by new_bvec(3) and the output table's entry.
C6_Witness ==
    /\ Built(1) /\ Built(2)
    /\ Len(calls[1]) >= 1 /\ Len(calls[2]) >= 1
    /\ out[1] # out[2]
    /\ ByPreset(1) /\ ctor[1][2] = <<0, 3>>
    /\ pc = "done" /\ "BVector2d.cs" \in DOMAIN pairs

\* C7: with_dimension stores every u32 verbatim, 0 and 2^32 - 1 included:
\* right after with_dimension(d) the context binds dim to the number d, and
\* the call is possible for every d.
C7_DimensionVerbatim ==
    \A b \in Builders :
        /\ (Len(calls[b]) >= 1 /\ calls[b][Len(calls[b])][1] = "with_dimension") =>
              LET d == calls[b][Len(calls[b])][2]
              IN  /\ "dim" \in DOMAIN ctx[b]
                  /\ ctx[b]["dim"] = <<"Number", <<0, 0, d[1], d[2]>> >>
        /\ (status[b] = "building" /\ TotalCalls < MaxCalls) =>
              \A d \in Dims : ENABLED WithDimension(b, d)

\* C7 witness: with_dimension(0) and with_dimension(2^32 - 1) have been
\* called and stored dim = 0 and dim = 2^32 - 1.
C7_Witness ==
    /\ calls[1] = << <<"with_dimension", <<0, 0>> >> >>
    /\ ctx[1]["dim"] = <<"Number", <<0, 0, 0, 0>> >>
    /\ calls[2] = << <<"with_dimension", <<65535, 65535>> >> >>
    /\ ctx[2]["dim"] = <<"Number", <<0, 0, 65535, 65535>> >>

\* C8: the keys of the mapping build_output_pairs() returns are non-empty
\* and distinct: no entry of the table is lost to another with the same
\* file name.
C8_KeysDistinctNonEmpty ==
    pc = "done" =>
        /\ \A f \in DOMAIN pairs : f # ""
        /\ Cardinality(DOMAIN pairs) = Len(output_pairs)
        /\ \A i \in 1..Len(output_pairs), j \in 1..Len(output_pairs) :
              output_pairs[i][1] = output_pairs[j][1] => i = j

\* C8 witness: the output table has been built and has a key.
C8_Witness ==
    /\ pc = "done"
    /\ \E f \in DOMAIN pairs : f = "BVector2d.cs"

\* C9 as stated: new_bvec(dim) builds the same context as
\* new().with_dimension(dim).with_element_type("bool").with_template("vec template").
C9_PresetEqualsChain_Original ==
    \A b \in Builders, c \in Builders :
        (/\ Built(b) /\ ByPreset(b) /\ Len(calls[b]) = 0
         /\ Built(c) /\ ByNew(c) /\ Len(calls[c]) = 3
         /\ calls[c][1][1] = "with_dimension" /\ calls[c][1][2] = ctor[b][2]
         /\ calls[c][2][1] = "with_element_type" /\ calls[c][2][2] = "bool"
         /\ calls[c][3][1] = "with_template" /\ calls[c][3][2] = "vec template")
        => out[b] = out[c]

\* C9 amended: new_bvec(dim) builds the same context as
\* new().with_dimension(dim).with_element_type("bool").with_template("vec.cs.tera"),
\* and no other binding.
C9_PresetEqualsChain ==
    \A b \in Builders, c \in Builders :
        (/\ Built(b) /\ ByPreset(b) /\ Len(calls[b]) = 0
         /\ Built(c) /\ ByNew(c) /\ Len(calls[c]) = 3
         /\ calls[c][1][1] = "with_dimension" /\ calls[c][1][2] = ctor[b][2]
         /\ calls[c][2][1] = "with_element_type" /\ calls[c][2][2] = "bool"
         /\ calls[c][3][1] = "with_template" /\ calls[c][3][2] = "vec.cs.tera")
        => out[b] = out[c]

\* C9 witness: the preset and the chain of generic setters ending in
\* with_template("vec.cs.tera") have both been run for the same dim.
C9_Witness ==
    /\ Built(1) /\ ByPreset(1) /\ Len(calls[1]) = 0 /\ ctor[1][2] = <<65535, 65535>>
    /\ Built(2) /\ ByNew(2)
    /\ calls[2] = << <<"with_dimension", <<65535, 65535>> >>,
                     <<"with_element_type", "bool">>,
                     <<"with_template", "vec.cs.tera">> >>

\* C10: every builder's context binds only template_path, element_t and
\* dim; template_path and element_t only strings; dim only a number in
\* 0 .. 2^32 - 1; and new() binds nothing.
C10_ContextShape ==
    \A b \in Builders :
        /\ \A c \in {ctx[b], out[b]} :
             /\ DOMAIN c \subseteq {"template_path", "element_t", "dim"}
             /\ "template_path" \in DOMAIN c => c["template_path"][1] = "String"
             /\ "element_t" \in DOMAIN c => c["element_t"][1] = "String"
             /\ "dim" \in DOMAIN c =>
                   /\ c["dim"][1] = "Number"
                   /\ c["dim"][2][1] = 0 /\ c["dim"][2][2] = 0
                   /\ c["dim"][2][3] \in 0..65535 /\ c["dim"][2][4] \in 0..65535
        /\ (status[b] = "building" /\ ByNew(b) /\ Len(calls[b]) = 0) => DOMAIN ctx[b] = {}

\* C10 witness: a builder holds all three bindings, dim = 2^32 - 1, while
\* another has just been created by new().
C10_Witness ==
    /\ DOMAIN ctx[1] = {"template_path", "element_t", "dim"}
    /\ ctx[1]["dim"] = <<"Number", <<0, 0, 65535, 65535>> >>
    /\ ByNew(1) /\ Len(calls[1]) = 3
    /\ status[2] = "building" /\ ByNew(2) /\ DOMAIN ctx[2] = {}

====
